---- MODULE Spec2Model ----
(***************************************************************************)
(* Model of flask_msearch/elasticsearch_backend.py: the Index cache of the *)
(* ElasticSearch backend, the document operations of create_one_index, and *)
(* the query construction and result mapping of Query.msearch.  The        *)
(* Elasticsearch client is the environment: it answers each call from the  *)
(* state of the engine, or fails.                                          *)
(***************************************************************************)
EXTENDS Integers, Sequences, FiniteSets, TLC

\* ------------------------------------------------------------------ bounds
\* primary-key values of the record instances written are 1..MaxDoc
MaxDoc == 1
\* ids of the documents an engine holds before the process starts, in
\* SpecQuery, are 1..MaxHits
MaxHits == 3
\* number of backend operations in one behaviour
MaxOps == 2
\* number of concurrent callers of index() in SpecConc
MaxThreads == 2

DocIds == 1..MaxDoc
HitIds == 1..MaxHits
Threads == 1..MaxThreads

\* ------------------------------------------------- record types (metadata)
\* Post declares __searchable__ and __msearch__geo__ and takes the host
\* defaults; Place overrides the index name and the primary key and declares
\* its fields with __msearch__.
Models == {"Post", "Place"}

TableName(model) == IF model = "Post" THEN "post" ELSE "place"

\* hasattr(model, attr)
HasAttr(model, attr) ==
    IF model = "Post"
    THEN attr \in {"__searchable__", "__msearch__geo__"}
    ELSE attr \in {"__msearch_index__", "__msearch_primary_key__",
                   "__msearch__", "__msearch__geo__"}

\* the value of a declared string attribute
StrAttr(model, attr) ==
    IF attr = "__msearch_index__" THEN "places" ELSE "uid"

\* the value of a declared field-list attribute
SetAttr(model, attr) ==
    IF model = "Post"
    THEN IF attr = "__searchable__" THEN {"title", "location"} ELSE {"location"}
    ELSE IF attr = "__msearch__" THEN {"name", "loc"} ELSE {"loc"}

\* getattr(model, attr, default)
GetattrStr(model, attr, default) ==
    IF HasAttr(model, attr) THEN StrAttr(model, attr) ELSE default

GetattrSet(model, attr, default) ==
    IF HasAttr(model, attr) THEN SetAttr(model, attr) ELSE default

\* values of app.config["MSEARCH_PRIMARY_KEY"]
PKNames == {"id", "uid"}

\* values of es.info()['version']['number'], '6' being the fallback
Versions == {"5.6.16", "6"}

VARIABLES
    es_version,   \* module global es_version
    pk,           \* ElasticSearch.pk, the host's primary-key field name
    _indexs,      \* ElasticSearch._indexs: table name -> Index (or NoIndex)
    nextId,       \* identity of the next Index object constructed
    es_indices,   \* engine: names of the indices that exist
    es_docs,      \* engine: index name -> ids of the stored documents
    es_visible,   \* engine: index name -> ids a search can see
    op,           \* the last operation and its arguments
    sq,           \* the search arguments of the last msearch
    calls,        \* the client calls the last operation made, in order
    result,       \* how the last operation ended: "ok" or the error raised
    ret,          \* the Index the last operation resolved (NoIndex if none)
    body,         \* the query body the last msearch built
    hits,         \* the hit ids the engine returned to the last msearch
    result_query, \* the query the last msearch returned
    createCalls,  \* model -> indices.create calls made so far
    createOk,     \* model -> indices.create calls that returned normally
    firstSeen,    \* model -> whether the index existed at first resolution
    opCount,      \* operations so far
    pc,           \* SpecConc: thread -> position in index()
    tmodel,       \* SpecConc: thread -> the model it resolves
    tix,          \* SpecConc: thread -> the Index it is constructing
    tgot          \* SpecConc: thread -> the Index index() returned

confvars == <<es_version, pk>>
cachevars == <<_indexs, nextId>>
enginevars == <<es_indices, es_docs, es_visible>>
opvars == <<op, sq, calls, result, ret, body, hits, result_query>>
histvars == <<createCalls, createOk, firstSeen, opCount>>
threadvars == <<pc, tmodel, tix, tgot>>
vars == <<confvars, cachevars, enginevars, opvars, histvars, threadvars>>

\* ------------------------------------------------------------------ Index
NoIndex ==
    [id |-> 0, model |-> "", doc_type |-> "", pk |-> "",
     searchable |-> {}, geo |-> {}, name |-> ""]

\* Index.__init__ up to the call of init(): the attributes of the new object
IndexObject(id, model, doc_type, hostpk) ==
    LET dt == GetattrStr(model, "__msearch_index__", doc_type)
    IN  [id |-> id,
         model |-> model,
         doc_type |-> dt,
         pk |-> GetattrStr(model, "__msearch_primary_key__", hostpk),
         searchable |-> GetattrSet(model, "__msearch__",
                                   GetattrSet(model, "__searchable__", {})),
         geo |-> GetattrSet(model, "__msearch__",
                            GetattrSet(model, "__msearch__geo__", {})),
         name |-> dt]

IndexNames == {IndexObject(1, m, TableName(m), "id").name : m \in Models}

\* es_version >= '6' compares strings: the first character decides, since
\* '6' is one character long
FirstDigit(v) == IF v = "5.6.16" THEN 5 ELSE 6

VersionGE6(v) == FirstDigit(v) >= 6

\* ----------------------------------------------------------- client calls
Call(api, index, doc_type, kw, val, ignore404) ==
    [api |-> api, index |-> index, doc_type |-> doc_type,
     kw |-> kw, val |-> val, ignore404 |-> ignore404]

\* Index.init: indices.exists, and indices.create
ExistsCall(ix) == Call("indices.exists", ix.name, "", "", 0, FALSE)

CreateIndexCall(ix) == Call("indices.create", ix.name, "", "", 0, FALSE)

\* Index.create
IndexCreateCall(ix, v, kw, val) ==
    Call("index", ix.name, IF VersionGE6(v) THEN "" ELSE ix.doc_type,
         kw, val, FALSE)

\* Index.update
IndexUpdateCall(ix, v, kw, val) ==
    Call("update", ix.name, IF VersionGE6(v) THEN "" ELSE ix.doc_type,
         kw, val, TRUE)

\* Index.delete
IndexDeleteCall(ix, v, kw, val) ==
    Call("delete", ix.name, IF VersionGE6(v) THEN "" ELSE ix.doc_type,
         kw, val, TRUE)

\* Index.search
IndexSearchCall(ix, v) ==
    Call("search", ix.name, IF VersionGE6(v) THEN "" ELSE ix.doc_type,
         "", 0, FALSE)

\* Index.commit
CommitCall(ix) == Call("indices.refresh", ix.name, "", "", 0, FALSE)

DocApis == {"index", "update", "delete"}

\* ------------------------------------------------------------- the engine
Engine(ind, docs, vis) == [indices |-> ind, docs |-> docs, visible |-> vis]

\* The client's document methods take the document id as the keyword id and
\* reject any other keyword before a request is sent.
ClientAccepts(c) == c.api \in DocApis => c.kw = "id"

\* The status the engine answers call c with in state e.
Status(e, c) ==
    IF ~ClientAccepts(c) THEN "TypeError"
    ELSE IF c.api = "indices.exists" THEN "ok"
    ELSE IF c.api = "indices.create"
         THEN IF c.index \in e.indices THEN "RequestError" ELSE "ok"
    ELSE IF c.api = "index" THEN "ok"
    ELSE IF c.index \notin e.indices THEN "NotFoundError"
    ELSE IF c.api \in {"update", "delete"} /\ c.val \notin e.docs[c.index]
         THEN "NotFoundError"
    ELSE "ok"

\* The engine after it has carried out call c.  A write reaches the searchable
\* view of an index only when the index is refreshed.
Effect(e, c) ==
    IF c.api = "indices.create"
    THEN [e EXCEPT !.indices = @ \cup {c.index}]
    ELSE IF c.api = "index"
    THEN [e EXCEPT !.indices = @ \cup {c.index},
                   !.docs[c.index] = @ \cup {c.val}]
    ELSE IF c.api = "delete"
    THEN [e EXCEPT !.docs[c.index] = @ \ {c.val}]
    ELSE IF c.api = "indices.refresh"
    THEN [e EXCEPT !.visible[c.index] = e.docs[c.index]]
    ELSE e

\* A status the caller of the client never sees: 404 with ignore=[404].
Ignored(c, st) == st = "NotFoundError" /\ c.ignore404

RECURSIVE RunFrom(_, _, _, _, _)
\* The calls of plan from position i on, made in order against engine e until
\* one raises.  fail is the position of the call the transport fails at (0:
\* none) and applied says whether the engine carried that call out all the
\* same.  The result: the engine, the number of calls made, and the error.
RunFrom(e, plan, i, fail, applied) ==
    IF i > Len(plan) THEN [engine |-> e, made |-> Len(plan), status |-> "ok"]
    ELSE LET c == plan[i]
             st == Status(e, c)
         IN  IF st = "TypeError"
             THEN [engine |-> e, made |-> i, status |-> st]
             ELSE IF i = fail
             THEN [engine |-> IF applied /\ st = "ok" THEN Effect(e, c) ELSE e,
                   made |-> i, status |-> "TransportError"]
             ELSE IF st = "ok"
             THEN RunFrom(Effect(e, c), plan, i + 1, fail, applied)
             ELSE IF Ignored(c, st)
             THEN RunFrom(e, plan, i + 1, fail, applied)
             ELSE [engine |-> e, made |-> i, status |-> st]

Run(e, plan, fail, applied) == RunFrom(e, plan, 1, fail, applied)

\* ------------------------------------------------------ ElasticSearch.index
\* index() without the membership test: every resolution builds an Index
CachedNever(model) == FALSE

\* name in self._indexs
Cached(model) == _indexs[TableName(model)] # NoIndex

\* the Index that index(model) constructs when the name is not cached
NewIndex(model) == IndexObject(nextId, model, TableName(model), pk)

\* Index.init: the calls it makes when the engine is in state e
InitPlan(ix, e) ==
    IF ix.name \in e.indices
    THEN <<ExistsCall(ix)>>
    ELSE <<ExistsCall(ix), CreateIndexCall(ix)>>

\* the client calls of index(model)
ResolvePlan(model, e) ==
    IF Cached(model) THEN <<>> ELSE InitPlan(NewIndex(model), e)

\* the Index that index(model) returns when nothing raises
Resolved(model) ==
    IF Cached(model) THEN _indexs[TableName(model)] ELSE NewIndex(model)

\* whether the run r of a plan starting with n resolution calls got past them
ResolvedOk(r, n) == r.status = "ok" \/ r.made > n

\* self._indexs[name] = Index(...): assigned only when Index(...) returns
CacheAfter(model, r, n) ==
    IF ~Cached(model) /\ ResolvedOk(r, n)
    THEN [_indexs EXCEPT ![TableName(model)] = NewIndex(model)]
    ELSE _indexs

CurrentEngine == Engine(es_indices, es_docs, es_visible)

MadeCreate(plan, r) ==
    \E i \in 1..r.made : plan[i].api = "indices.create"

CreateReturned(plan, r) ==
    \E i \in 1..r.made :
        /\ plan[i].api = "indices.create"
        /\ (i < r.made \/ r.status = "ok")

\* What an operation on model leaves behind once its plan has run as r: the
\* cache, the engine, the calls made and the error or "ok".
Finish(model, plan, n, r) ==
    /\ _indexs' = CacheAfter(model, r, n)
    /\ nextId' = IF Cached(model) THEN nextId ELSE nextId + 1
    /\ es_indices' = r.engine.indices
    /\ es_docs' = r.engine.docs
    /\ es_visible' = r.engine.visible
    /\ calls' = SubSeq(plan, 1, r.made)
    /\ result' = r.status
    /\ ret' = IF ResolvedOk(r, n) THEN Resolved(model) ELSE NoIndex
    /\ createCalls' = [createCalls EXCEPT
                         ![model] = IF MadeCreate(plan, r) THEN @ + 1 ELSE @]
    /\ createOk' = [createOk EXCEPT
                      ![model] = IF CreateReturned(plan, r) THEN @ + 1 ELSE @]
    /\ firstSeen' = [firstSeen EXCEPT
                       ![model] = IF @ = "unset" /\ ~Cached(model)
                                  THEN IF NewIndex(model).name \in es_indices
                                       THEN "existed" ELSE "absent"
                                  ELSE @]
    /\ opCount' = opCount + 1

NoOp == [kind |-> "none", model |-> "", pkv |-> 0,
         update |-> FALSE, delete |-> FALSE, commit |-> FALSE]

NoKwargs == [keys |-> {}, fields |-> {}, default_operator |-> ""]

NoSearch ==
    [query |-> "", fields |-> {}, limit |-> 0, or_ |-> FALSE,
     rank_order |-> FALSE, geohash |-> "", geofield |-> "",
     geodistance |-> "", kwargs |-> NoKwargs]

NoQueryString ==
    [fields |-> {}, query |-> "", default_operator |-> "",
     analyze_wildcard |-> FALSE]

NoFilter == [distance |-> "", field |-> "", point |-> ""]

NoBody ==
    [top |-> {}, shape |-> "", must |-> "", query_string |-> NoQueryString,
     filter |-> NoFilter, size |-> 0]

NoOrder == [on |-> FALSE, column |-> "", whens |-> <<>>]

NoResultQuery ==
    [criterion |-> [kind |-> "none", column |-> "", ids |-> {}],
     order_by |-> NoOrder]

\* index(model), called on its own
Index(model, fail, applied) ==
    /\ opCount < MaxOps
    /\ LET plan == ResolvePlan(model, CurrentEngine)
           r == Run(CurrentEngine, plan, fail, applied)
       IN  Finish(model, plan, Len(plan), r)
    /\ op' = [NoOp EXCEPT !.kind = "index", !.model = model]
    /\ sq' = NoSearch
    /\ body' = NoBody
    /\ hits' = <<>>
    /\ result_query' = NoResultQuery
    /\ UNCHANGED <<confvars, threadvars>>

\* ------------------------------------------- ElasticSearch.create_one_index
\* the document call of create_one_index, by mode
DocCall(ix, v, update, delete, pkv) ==
    IF delete THEN IndexDeleteCall(ix, v, ix.pk, pkv)
    ELSE IF update THEN IndexUpdateCall(ix, v, ix.pk, pkv)
    ELSE IndexCreateCall(ix, v, ix.pk, pkv)

\* create_one_index refreshing before the document call instead of after it
UpsertPlanRefreshFirst(model, e, v, update, delete, commit, pkv) ==
    LET ix == Resolved(model)
    IN  ResolvePlan(model, e)
          \o (IF commit THEN <<CommitCall(ix)>> ELSE <<>>)
          \o <<DocCall(ix, v, update, delete, pkv)>>

\* the client calls of create_one_index once its arguments are accepted
UpsertPlan(model, e, v, update, delete, commit, pkv) ==
    LET ix == Resolved(model)
    IN  ResolvePlan(model, e)
          \o <<DocCall(ix, v, update, delete, pkv)>>
          \o (IF commit THEN <<CommitCall(ix)>> ELSE <<>>)

\* create_one_index without the check of its arguments
RejectedNever(update, delete) == FALSE

\* if update and delete: raise ValueError
Rejected(update, delete) == update /\ delete

create_one_index(model, pkv, update, delete, commit, fail, applied) ==
    /\ opCount < MaxOps
    /\ op' = [kind |-> "create_one_index", model |-> model, pkv |-> pkv,
              update |-> update, delete |-> delete, commit |-> commit]
    /\ IF Rejected(update, delete)
       THEN /\ result' = "ValueError"
            /\ calls' = <<>>
            /\ ret' = NoIndex
            /\ opCount' = opCount + 1
            /\ UNCHANGED <<cachevars, enginevars, createCalls, createOk,
                           firstSeen>>
       ELSE LET plan == UpsertPlan(model, CurrentEngine, es_version,
                                   update, delete, commit, pkv)
                n == Len(ResolvePlan(model, CurrentEngine))
                r == Run(CurrentEngine, plan, fail, applied)
            IN  Finish(model, plan, n, r)
    /\ sq' = NoSearch
    /\ body' = NoBody
    /\ hits' = <<>>
    /\ result_query' = NoResultQuery
    /\ UNCHANGED <<confvars, threadvars>>

\* ------------------------------------------------------------ Query.msearch
\* Python truth of the optional arguments: None and the empty value are false
Given(x) == x # ""

\* query_string, lines 232-238: the defaults, then update(**kwargs)
QueryString(ix, a) ==
    LET k == a.kwargs
    IN  [fields |-> IF "fields" \in k.keys THEN k.fields
                    ELSE IF a.fields # {} THEN a.fields
                    ELSE {field \in ix.searchable : field \notin ix.geo},
         query |-> a.query,
         default_operator |-> IF "default_operator" \in k.keys
                              THEN k.default_operator
                              ELSE IF a.or_ THEN "OR" ELSE "AND",
         analyze_wildcard |-> TRUE]

\* limit or -1
SizeOf(limit) == IF limit # 0 THEN limit ELSE -1

\* msearch using the caller's radius in the text-and-geo query as well
QueryBodyOneRadius(ix, a) ==
    IF Given(a.geohash) /\ Given(a.geofield)
    THEN [top |-> {"query"}, shape |-> "bool",
          must |-> IF Given(a.query) THEN "query_string" ELSE "match_all",
          query_string |-> IF Given(a.query) THEN QueryString(ix, a)
                           ELSE NoQueryString,
          filter |-> [distance |-> a.geodistance, field |-> a.geofield,
                      point |-> a.geohash],
          size |-> 0]
    ELSE [top |-> {"query", "size"}, shape |-> "query_string", must |-> "",
          query_string |-> QueryString(ix, a),
          filter |-> NoFilter,
          size |-> SizeOf(a.limit)]

\* the query body, lines 239-277
QueryBody(ix, a) ==
    IF Given(a.geohash) /\ Given(a.geofield) /\ Given(a.query)
    THEN [top |-> {"query"}, shape |-> "bool", must |-> "query_string",
          query_string |-> QueryString(ix, a),
          filter |-> [distance |-> "50km", field |-> a.geofield,
                      point |-> a.geohash],
          size |-> 0]
    ELSE IF Given(a.geohash) /\ Given(a.geofield) /\ ~Given(a.query)
    THEN [top |-> {"query"}, shape |-> "bool", must |-> "match_all",
          query_string |-> NoQueryString,
          filter |-> [distance |-> a.geodistance, field |-> a.geofield,
                      point |-> a.geohash],
          size |-> 0]
    ELSE [top |-> {"query", "size"}, shape |-> "query_string", must |-> "",
          query_string |-> QueryString(ix, a),
          filter |-> NoFilter,
          size |-> SizeOf(a.limit)]

\* the rank mapping built the wrong way round: position -> id
WhensById(results) ==
    [id \in {results[i] : i \in DOMAIN results} |-> id]

\* {r["_id"]: index for index, r in enumerate(results)}: the last position
\* of an id is the one kept
Whens(results) ==
    [id \in {results[i] : i \in DOMAIN results} |->
        (CHOOSE i \in DOMAIN results :
            /\ results[i] = id
            /\ \A j \in DOMAIN results : results[j] = id => j <= i) - 1]

\* msearch without the test for an empty hit list, returning the query as is
ResultQueryUnrestricted(ix, results, rank_order) ==
    IF results = <<>>
    THEN NoResultQuery
    ELSE [criterion |-> [kind |-> "in", column |-> ix.pk,
                         ids |-> {results[i] : i \in DOMAIN results}],
          order_by |-> IF rank_order
                       THEN [on |-> TRUE, column |-> ix.pk,
                             whens |-> Whens(results)]
                       ELSE NoOrder]

\* the returned query, lines 279-290
ResultQuery(ix, results, rank_order) ==
    IF results = <<>>
    THEN [criterion |-> [kind |-> "null", column |-> "", ids |-> {}],
          order_by |-> NoOrder]
    ELSE [criterion |-> [kind |-> "in", column |-> ix.pk,
                         ids |-> {results[i] : i \in DOMAIN results}],
          order_by |-> IF rank_order
                       THEN [on |-> TRUE, column |-> ix.pk,
                             whens |-> Whens(results)]
                       ELSE NoOrder]

\* the ranked hit lists an engine can answer with from the ids it can see
RECURSIVE HitLists(_, _)
HitLists(S, n) ==
    IF n = 0 \/ S = {} THEN {<<>>}
    ELSE {<<>>} \cup UNION {{<<x>> \o t : t \in HitLists(S \ {x}, n - 1)} : x \in S}

msearch(model, a, results, fail, applied) ==
    /\ opCount < MaxOps
    /\ LET ix == Resolved(model)
           e == CurrentEngine
           plan == ResolvePlan(model, e) \o <<IndexSearchCall(ix, es_version)>>
           n == Len(plan) - 1
           r == Run(e, plan, fail, applied)
           q == QueryBody(ix, a)
       IN  /\ Finish(model, plan, n, r)
           /\ IF ResolvedOk(r, n) THEN body' = q ELSE body' = NoBody
           /\ IF r.status = "ok"
              THEN /\ results \in HitLists(r.engine.visible[ix.name],
                                           IF q.size > 0 THEN q.size
                                           ELSE Cardinality(r.engine.visible[ix.name]))
                   /\ hits' = results
                   /\ result_query' = ResultQuery(ix, results, a.rank_order)
              ELSE /\ results = <<>>
                   /\ hits' = <<>>
                   /\ result_query' = NoResultQuery
    /\ op' = [NoOp EXCEPT !.kind = "msearch", !.model = model]
    /\ sq' = a
    /\ UNCHANGED <<confvars, threadvars>>

\* geodistance='10km', the default of msearch's parameter
DefaultGeodistance == "10km"

\* ---------------------------------------------------------- the arguments
KwargsSet ==
    {NoKwargs,
     [keys |-> {"default_operator"}, fields |-> {}, default_operator |-> "OR"],
     [keys |-> {"fields"}, fields |-> {"title", "location"},
      default_operator |-> ""]}

\* the arguments of msearch; "" , 0 and {} stand for an argument left out
SearchArgs ==
    [query : {"", "hello"},
     fields : {{}, {"title"}, {"title", "location"}},
     limit : {0, 1},
     or_ : BOOLEAN,
     rank_order : BOOLEAN,
     geohash : {"", "u4pruyd"},
     geofield : {"", "location"},
     geodistance : {DefaultGeodistance, "5km"},
     kwargs : KwargsSet]

\* a plain text search: every optional argument left at its default
PlainArgs ==
    {[NoSearch EXCEPT !.query = "hello", !.geodistance = DefaultGeodistance]}

AllHitLists == HitLists(HitIds, MaxHits)

\* ------------------------------------------------------------------- Init
InitCommon ==
    /\ es_version \in Versions
    /\ pk \in PKNames
    /\ _indexs = [t \in {TableName(m) : m \in Models} |-> NoIndex]
    /\ nextId = 1
    /\ op = NoOp
    /\ sq = NoSearch
    /\ calls = <<>>
    /\ result = "ok"
    /\ ret = NoIndex
    /\ body = NoBody
    /\ hits = <<>>
    /\ result_query = NoResultQuery
    /\ createCalls = [m \in Models |-> 0]
    /\ createOk = [m \in Models |-> 0]
    /\ firstSeen = [m \in Models |-> "unset"]
    /\ opCount = 0
    /\ pc = [t \in Threads |-> "idle"]
    /\ tmodel = [t \in Threads |-> ""]
    /\ tix = [t \in Threads |-> NoIndex]
    /\ tgot = [t \in Threads |-> NoIndex]

\* a new process against an engine that may already hold some of the indices
Init ==
    /\ InitCommon
    /\ es_indices \in SUBSET IndexNames
    /\ es_docs = [n \in IndexNames |-> {}]
    /\ es_visible = [n \in IndexNames |-> {}]

\* the calls that change the engine
Mutating(c) == c.api \notin {"indices.exists", "search"}

\* the transport may fail at any one call of the plan, or at none; whether
\* the engine carried a failed mutating call out is open
Failures(plan) ==
    {<<0, FALSE>>}
      \cup {<<i, b>> \in (1..Len(plan)) \X BOOLEAN : b => Mutating(plan[i])}

Next ==
    \/ \E m \in Models :
         \E f \in Failures(ResolvePlan(m, CurrentEngine)) :
           Index(m, f[1], f[2])
    \/ \E m \in Models, pkv \in DocIds, update, delete, commit \in BOOLEAN :
         \E f \in IF Rejected(update, delete) THEN {<<0, FALSE>>}
                  ELSE Failures(UpsertPlan(m, CurrentEngine, es_version,
                                           update, delete, commit, pkv)) :
           create_one_index(m, pkv, update, delete, commit, f[1], f[2])
    \/ \E m \in Models, a \in PlainArgs :
         \E f \in Failures(ResolvePlan(m, CurrentEngine) \o <<ExistsCall(NoIndex)>>) :
           \E results \in IF f[1] = 0
                          THEN HitLists(es_visible[Resolved(m).name], MaxDoc)
                          ELSE {<<>>} :
             msearch(m, a, results, f[1], f[2])

Spec == Init /\ [][Next]_vars

\* a new process against an engine whose indices hold every document
InitQuery ==
    /\ InitCommon
    /\ es_indices = IndexNames
    /\ es_docs = [n \in IndexNames |-> HitIds]
    /\ es_visible = [n \in IndexNames |-> HitIds]

\* one search from each initial state
NextQuery ==
    /\ opCount = 0
    /\ \E m \in Models, a \in SearchArgs, fail \in 0..1 :
         \E results \in IF fail = 0 THEN AllHitLists ELSE {<<>>} :
           msearch(m, a, results, fail, FALSE)

SpecQuery == InitQuery /\ [][NextQuery]_vars

\* ------------------------------------- index() called by concurrent threads
\* Each thread calls index(model) once.  The steps are the places where
\* another thread can run in between: the membership test of line 196, the
\* two client calls of Index.init, the assignment of line 197 and the read of
\* line 204.  No lock is taken anywhere in index().

\* line 196: name not in self._indexs, and the Index object of line 197
T_Enter(t, model) ==
    /\ pc[t] = "idle"
    /\ tmodel' = [tmodel EXCEPT ![t] = model]
    /\ IF Cached(model)
       THEN /\ pc' = [pc EXCEPT ![t] = "return"]
            /\ UNCHANGED <<tix, nextId>>
       ELSE /\ pc' = [pc EXCEPT ![t] = "exists"]
            /\ tix' = [tix EXCEPT ![t] = NewIndex(model)]
            /\ nextId' = nextId + 1
    /\ firstSeen' = [firstSeen EXCEPT
                       ![model] = IF @ = "unset" /\ ~Cached(model)
                                  THEN IF NewIndex(model).name \in es_indices
                                       THEN "existed" ELSE "absent"
                                  ELSE @]
    /\ UNCHANGED <<confvars, _indexs, enginevars, opvars, createCalls,
                   createOk, opCount, tgot>>

\* line 103: self._client.indices.exists(index=self.name)
T_Exists(t) ==
    /\ pc[t] = "exists"
    /\ pc' = [pc EXCEPT ![t] = IF tix[t].name \in es_indices
                                THEN "store" ELSE "create"]
    /\ UNCHANGED <<confvars, cachevars, enginevars, opvars, histvars,
                   tmodel, tix, tgot>>

\* line 106: self._client.indices.create(index=self.name, body=mappings)
T_Create(t) ==
    /\ pc[t] = "create"
    /\ LET c == CreateIndexCall(tix[t])
           e == CurrentEngine
           st == Status(e, c)
       IN  /\ createCalls' = [createCalls EXCEPT ![tmodel[t]] = @ + 1]
           /\ IF st = "ok"
              THEN /\ es_indices' = Effect(e, c).indices
                   /\ createOk' = [createOk EXCEPT ![tmodel[t]] = @ + 1]
                   /\ pc' = [pc EXCEPT ![t] = "store"]
              ELSE /\ pc' = [pc EXCEPT ![t] = "raised"]
                   /\ UNCHANGED <<es_indices, createOk>>
    /\ UNCHANGED <<confvars, cachevars, es_docs, es_visible, opvars,
                   firstSeen, opCount, tmodel, tix, tgot>>

\* line 197: self._indexs[name] = Index(...)
T_Store(t) ==
    /\ pc[t] = "store"
    /\ _indexs' = [_indexs EXCEPT ![TableName(tmodel[t])] = tix[t]]
    /\ pc' = [pc EXCEPT ![t] = "return"]
    /\ UNCHANGED <<confvars, nextId, enginevars, opvars, histvars,
                   tmodel, tix, tgot>>

\* line 204: return self._indexs[name]
T_Return(t) ==
    /\ pc[t] = "return"
    /\ tgot' = [tgot EXCEPT ![t] = _indexs[TableName(tmodel[t])]]
    /\ pc' = [pc EXCEPT ![t] = "done"]
    /\ UNCHANGED <<confvars, cachevars, enginevars, opvars, histvars,
                   tmodel, tix>>

NextConc ==
    \/ \E t \in Threads, m \in Models : T_Enter(t, m)
    \/ \E t \in Threads : T_Exists(t)
    \/ \E t \in Threads : T_Create(t)
    \/ \E t \in Threads : T_Store(t)
    \/ \E t \in Threads : T_Return(t)

SpecConc == Init /\ [][NextConc]_vars

\* ------------------------------------------------- reading the last operation
Range(seq) == {seq[i] : i \in DOMAIN seq}

\* the positions in calls of the calls of the given apis
Positions(apis) == {i \in DOMAIN calls : calls[i].api \in apis}

IsUpsert == op.kind = "create_one_index"

IsSearch == op.kind = "msearch"

\* the store's reading of the criterion msearch adds: WHERE null admits no
\* row, pk IN (ids) admits the rows whose key is among ids
Admits(criterion, v) ==
    IF criterion.kind = "null" THEN FALSE
    ELSE IF criterion.kind = "in" THEN v \in criterion.ids
    ELSE TRUE

\* primary-key values of the rows of the store
Rows == 0..(MaxHits + 1)

RECURSIVE SortedBy(_, _)
\* the elements of S in increasing order of key
SortedBy(S, key) ==
    IF S = {} THEN <<>>
    ELSE LET x == CHOOSE x \in S : \A y \in S : key[x] <= key[y]
         IN  <<x>> \o SortedBy(S \ {x}, key)

\* the order of the rows of a query with ORDER BY CASE pk WHEN id THEN index
RankOrdered(q) ==
    SortedBy({v \in Rows : Admits(q.criterion, v)}, q.order_by.whens)

KmOf(d) == IF d = "50km" THEN 50 ELSE IF d = "10km" THEN 10 ELSE 5

\* ------------------------------------------------------------------ claims

\* C1: create_one_index called with update and delete both true raises
\* ValueError before any client call: the step makes no call and leaves the
\* Index cache and the engine as they were.
C1_RejectedBeforeAnyCall ==
    [][(op'.kind = "create_one_index" /\ op'.update /\ op'.delete)
         => /\ result' = "ValueError"
            /\ calls' = <<>>
            /\ _indexs' = _indexs
            /\ nextId' = nextId
            /\ enginevars' = enginevars
            /\ createCalls' = createCalls]_vars

\* C1: an update-and-delete request was rejected with an Index in the cache
C1_Witness ==
    /\ IsUpsert /\ op.update /\ op.delete
    /\ result = "ValueError"
    /\ \E m \in Models : _indexs[TableName(m)] # NoIndex

\* C2 as stated: over any sequence of operations at most one indices.create
\* call is issued for a RecordType, and none if its engine index existed at
\* the first resolution; a resolution returns the cached Index.
C2_AtMostOneCreateCall ==
    /\ \A m \in Models :
         /\ createCalls[m] <= 1
         /\ firstSeen[m] = "existed" => createCalls[m] = 0
    /\ (op.kind # "none" /\ ret # NoIndex) => ret = _indexs[TableName(op.model)]

\* C2 amended: once a RecordType's Index is cached, every later operation
\* leaves that entry as it is, resolves to that very object and issues no
\* exists or create call for it; at most one indices.create call per
\* RecordType returns normally, and none is issued if the engine index
\* existed at the first resolution.
C2_CachedIndexIsKept ==
    /\ [](\A m \in Models :
            /\ createOk[m] <= 1
            /\ firstSeen[m] = "existed" => createCalls[m] = 0)
    /\ [][\A m \in Models :
            _indexs[TableName(m)] # NoIndex
              => /\ _indexs'[TableName(m)] = _indexs[TableName(m)]
                 /\ createCalls'[m] = createCalls[m]
                 /\ (op'.model = m /\ result' # "ValueError")
                      => /\ ret' = _indexs[TableName(m)]
                         /\ \A i \in DOMAIN calls' :
                              calls'[i].api \notin {"indices.exists",
                                                    "indices.create"}]_vars

\* C2: a RecordType whose index this process created is resolved again from
\* the cache
C2_Witness ==
    /\ op.kind = "index" /\ result = "ok"
    /\ calls = <<>>
    /\ ret = _indexs[TableName(op.model)]
    /\ createOk[op.model] = 1

\* C3: the field list of the text query msearch builds from its fields
\* argument holds no geo field of the record type, also when the caller's
\* list names one, and is searchable minus geo when the caller passes no
\* list.
C3_NoGeoFieldInTextQuery ==
    (IsSearch /\ body # NoBody /\ body.query_string # NoQueryString
       /\ "fields" \notin sq.kwargs.keys)
      => /\ body.query_string.fields \cap ret.geo = {}
         /\ sq.fields = {}
              => body.query_string.fields = ret.searchable \ ret.geo

\* C4: the criterion msearch adds admits exactly the rows whose primary key
\* is the id of a returned hit; with no hit it admits no row and is never
\* left out.
C4_FilterIsExactlyTheHits ==
    (IsSearch /\ result = "ok")
      => /\ \A v \in Rows :
              Admits(result_query.criterion, v) <=> v \in Range(hits)
         /\ result_query.criterion.kind \in {"null", "in"}
         /\ result_query.criterion.kind = "in"
              => result_query.criterion.column = ret.pk

\* C4: a search answered with no hit
C4_Witness ==
    /\ IsSearch /\ result = "ok" /\ hits = <<>>
    /\ \A v \in Rows : ~Admits(result_query.criterion, v)

\* C5: with rank_order and at least one hit the returned query orders the
\* admitted rows as the hits are ranked, each id mapped to its position;
\* without rank_order it adds no ordering.
C5_RankOrderFollowsHits ==
    (IsSearch /\ result = "ok")
      => /\ (sq.rank_order /\ hits # <<>>)
              => /\ result_query.order_by.on
                 /\ result_query.order_by.column = ret.pk
                 /\ \A i \in DOMAIN hits :
                      result_query.order_by.whens[hits[i]] = i - 1
                 /\ RankOrdered(result_query) = hits
         /\ ~sq.rank_order => result_query.order_by = NoOrder

\* C5: hits ranked 3, 1, 2 with rank_order
C5_Witness ==
    /\ IsSearch /\ result = "ok" /\ sq.rank_order
    /\ hits = <<3, 1, 2>>
    /\ RankOrdered(result_query) = <<3, 1, 2>>

\* C6: an upsert that is not rejected and has resolved its Index issues
\* exactly one document call, of the api its mode names, on the Index's name
\* and with the primary-key value as the document id.
C6_DocCallCarriesId ==
    (IsUpsert /\ ~(op.update /\ op.delete) /\ ret # NoIndex)
      => /\ Cardinality(Positions(DocApis)) = 1
         /\ \A i \in Positions(DocApis) :
              /\ calls[i].api = IF op.delete THEN "delete"
                                ELSE IF op.update THEN "update" ELSE "index"
              /\ calls[i].index = ret.name
              /\ calls[i].kw = "id"
              /\ calls[i].val = op.pkv

\* C7: an update or delete of a document absent from the index ends "ok"
\* with the documents unchanged unless the transport fails, and a transport
\* failure reaches the caller with no call made twice.
C7_OnlyNotFoundAbsorbed ==
    [][(op'.kind = "create_one_index" /\ ~(op'.update /\ op'.delete)
          /\ ret' # NoIndex)
         => /\ ((op'.update \/ op'.delete)
                  /\ op'.pkv \notin es_docs[ret'.name]
                  /\ result' # "TransportError")
                 => (result' = "ok" /\ es_docs' = es_docs)
            /\ result' = "TransportError"
                 => /\ calls' # <<>>
                    /\ \A i, j \in DOMAIN calls' :
                         calls'[i] = calls'[j] => i = j]_vars

\* C8: an upsert with commit that returns normally made exactly one refresh
\* call, on the resolved index, as its last call and after its document
\* call, and leaves every stored document of that index searchable; an
\* upsert without commit made no refresh call.
C8_CommitRefreshesOnce ==
    IsUpsert
      => /\ (op.commit /\ result = "ok")
              => /\ Cardinality(Positions({"indices.refresh"})) = 1
                 /\ calls[Len(calls)] = CommitCall(ret)
                 /\ Len(calls) >= 2
                 /\ calls[Len(calls) - 1].api \in DocApis
                 /\ es_visible[ret.name] = es_docs[ret.name]
                 /\ (~op.update /\ ~op.delete)
                      => op.pkv \in es_visible[ret.name]
         /\ ~op.commit => Positions({"indices.refresh"}) = {}

\* C8: a document was created with commit and can be searched
C8_Witness ==
    /\ IsUpsert /\ op.commit /\ ~op.update /\ ~op.delete
    /\ result = "ok"
    /\ op.pkv \in es_visible[ret.name]

TextGiven == Given(sq.query)

GeoGiven == Given(sq.geohash) /\ Given(sq.geofield)

TextShape(b) ==
    /\ b.shape = "query_string"
    /\ b.top = {"query", "size"}
    /\ b.filter = NoFilter
    /\ b.query_string.query = sq.query
    /\ b.size = IF sq.limit # 0 THEN sq.limit ELSE -1

GeoOnlyShape(b) ==
    /\ b.shape = "bool" /\ b.must = "match_all"
    /\ b.query_string = NoQueryString
    /\ b.filter = [distance |-> sq.geodistance, field |-> sq.geofield,
                   point |-> sq.geohash]
    /\ sq.geodistance = DefaultGeodistance => b.filter.distance = "10km"

GeoTextShape(b) ==
    /\ b.shape = "bool" /\ b.must = "query_string"
    /\ b.query_string.query = sq.query
    /\ b.filter = [distance |-> "50km", field |-> sq.geofield,
                   point |-> sq.geohash]
    /\ KmOf(b.filter.distance) > KmOf(DefaultGeodistance)

\* the three shapes, chosen by the text and the geo filter
ShapeByArguments(b) ==
    /\ (TextGiven /\ ~GeoGiven) => TextShape(b)
    /\ (~TextGiven /\ GeoGiven) => GeoOnlyShape(b)
    /\ (TextGiven /\ GeoGiven) => GeoTextShape(b)
    /\ TextShape(b) \/ GeoOnlyShape(b) \/ GeoTextShape(b)

\* C9 as stated: msearch builds one of three shapes by its arguments, and
\* the operator of a text-only query is OR when or_ is set and AND otherwise.
C9_ThreeShapes ==
    (IsSearch /\ body # NoBody)
      => /\ ShapeByArguments(body)
         /\ (TextGiven /\ ~GeoGiven)
              => body.query_string.default_operator
                   = IF sq.or_ THEN "OR" ELSE "AND"

\* C9 amended: the same, the operator being OR when or_ is set and AND
\* otherwise unless the caller's extra keyword arguments name
\* default_operator, whose value then replaces it.
C9_ThreeShapesUnlessOverridden ==
    (IsSearch /\ body # NoBody)
      => /\ ShapeByArguments(body)
         /\ (TextGiven /\ ~GeoGiven)
              => body.query_string.default_operator
                   = IF "default_operator" \in sq.kwargs.keys
                     THEN sq.kwargs.default_operator
                     ELSE IF sq.or_ THEN "OR" ELSE "AND"

\* C9: a text-and-geo search whose caller asked for a radius of 5km
C9_Witness ==
    /\ IsSearch /\ body # NoBody
    /\ TextGiven /\ GeoGiven
    /\ sq.geodistance = "5km"
    /\ body.filter.distance = "50km"

\* C10: when threads resolve the same uncached RecordType concurrently, at
\* most one Index is constructed and at most one indices.create call is
\* issued for it, and the threads that return hold the same Index.
C10_SingleWriter ==
    \A m \in Models :
      /\ Cardinality({t \in Threads : /\ tmodel[t] = m
                                       /\ tix[t] # NoIndex
                                       /\ pc[t] \in {"store", "return", "done"}})
           <= 1
      /\ createCalls[m] <= 1
      /\ \A t, u \in Threads :
           (pc[t] = "done" /\ pc[u] = "done" /\ tmodel[t] = m /\ tmodel[u] = m)
             => tgot[t] = tgot[u]

====
